---- MODULE Spec2Model ----
(***************************************************************************)
(* Verification model of the Superfluid documentation site repository.     *)
(*                                                                         *)
(* Two parts, each with its own specification:                             *)
(*   SiteSpec  the site configuration module (docusaurus.config.ts): the   *)
(*             value obtained by evaluating the module in a build          *)
(*             environment (clock, timezone);                              *)
(*   Spec      the Distribution Pool described by the documentation page   *)
(*             "Distribution Pools" that follows the configuration: pool   *)
(*             configuration, member units, distributions.                 *)
(***************************************************************************)
EXTENDS Integers, Sequences, FiniteSets, TLC

VARIABLES
    \* ---- site configuration (SiteSpec) ----
    now,          \* now[e]: the clock of build environment e, in ticks since the epoch (UTC)
    tz,           \* tz[e]: the timezone offset of environment e, in ticks
    exported,     \* exported[e]: <<>> or <<[time, offset, config]>>, the last evaluation of the module in e
    \* ---- distribution pool (Spec) ----
    created,      \* whether createPool has run
    admin,        \* the pool admin given to createPool
    poolConfig,   \* the PoolConfig given to createPool
    units,        \* units[m]: the units of member m
    flowRate,     \* the total flow rate distributed via the pool
    distributors, \* the addresses whose distributions took place
    lastCall      \* the last call: [op, sender, ok]

siteVars == <<now, tz, exported>>
poolVars == <<created, admin, poolConfig, units, flowRate, distributors, lastCall>>
vars == <<now, tz, exported, created, admin, poolConfig, units, flowRate, distributors, lastCall>>

(***************************************************************************)
(* Bounds                                                                  *)
(***************************************************************************)
NumEnvs == 2        \* build environments
StartTime == 214    \* the earliest clock value of an environment, in ticks
MaxElapsed == 1     \* ticks an environment's clock may advance
MaxOffset == 1      \* timezone offsets range over -MaxOffset..MaxOffset ticks
TicksPerYear == 4   \* clock resolution: ticks in a calendar year

Envs == 1..NumEnvs
Offsets == (0 - MaxOffset)..MaxOffset

(***************************************************************************)
(* JavaScript Date and template literal, as the configuration uses them    *)
(***************************************************************************)
EpochYear == 1970

\* new Date(): the current time of the environment, with its timezone.
NewDate(e) == [time |-> now[e], offset |-> tz[e]]

\* A mutant: the year in UTC (getUTCFullYear) instead of local time.
getUTCFullYear(date) == EpochYear + (date.time \div TicksPerYear)

\* Date.prototype.getFullYear(): the calendar year of the date in local time.
getFullYear(date) == EpochYear + ((date.time + date.offset) \div TicksPerYear)

DigitChar(d) ==
    CASE d = 0 -> "0" [] d = 1 -> "1" [] d = 2 -> "2" [] d = 3 -> "3" [] d = 4 -> "4"
      [] d = 5 -> "5" [] d = 6 -> "6" [] d = 7 -> "7" [] d = 8 -> "8" [] d = 9 -> "9"

RECURSIVE NumberToString(_)
\* ${n} in a template literal: the decimal digits of a number.
NumberToString(n) ==
    IF n < 0 THEN "-" \o NumberToString(0 - n)
    ELSE IF n < 10 THEN DigitChar(n)
    ELSE NumberToString(n \div 10) \o DigitChar(n % 10)

(***************************************************************************)
(* docusaurus.config.ts                                                    *)
(***************************************************************************)
editUrl == "https://github.com/facebook/docusaurus/tree/main/packages/create-docusaurus/templates/shared/"

presets ==
    << << "classic",
          [ docs  |-> [sidebarPath |-> "./sidebars.ts", editUrl |-> editUrl],
            blog  |-> [showReadingTime |-> TRUE, editUrl |-> editUrl],
            theme |-> [customCss |-> "./src/css/custom.css"] ] >> >>

DocSidebar(id, lbl) == [type |-> "docSidebar", sidebarId |-> id, position |-> "left", label |-> lbl]
RightLink(url, lbl) == [href |-> url, position |-> "right", label |-> lbl]

navbar ==
    [ title |-> "Docs",
      logo  |-> [alt |-> "My Site Logo", src |-> "img/logo-black.svg", srcDark |-> "img/logo.svg"],
      items |-> << DocSidebar("Concepts", "Concepts"),
                   DocSidebar("Protocol", "Protocol"),
                   DocSidebar("SDK", "SDK"),
                   DocSidebar("TechnicalReference", "Technical Reference"),
                   RightLink("https://console.superfluid.finance/", "Console"),
                   RightLink("https://github.com/superfluid-finance", "Github"),
                   RightLink("https://discord.gg/pPzPEDMVua", "Discord"),
                   [ type |-> "dropdown", label |-> "Version", position |-> "right",
                     items |-> << [label |-> "Current", href |-> "#"],
                                  [label |-> "Legacy", href |-> "https://superfluid.gitbook.io/"] >> ] >> ]

footerLinks ==
    << [ title |-> "Docs",
         items |-> << [label |-> "Concepts", to |-> "/docs/concepts/superfluid"],
                      [label |-> "Protocol", to |-> "/docs/protocol/quickstart"],
                      [label |-> "SDK", to |-> "/docs/sdk/overview"],
                      [label |-> "Technical Reference", to |-> "/docs/technical-reference/intro"] >> ],
       [ title |-> "Community",
         items |-> << [label |-> "Github", href |-> "https://github.com/superfluid-finance"],
                      [label |-> "Discord", href |-> "https://discord.gg/pPzPEDMVua"],
                      [label |-> "X/Twitter", href |-> "https://twitter.com/intent/follow?screen_name=Superfluid_HQ"] >> ],
       [ title |-> "More",
         items |-> << [label |-> "About Us", href |-> "https://www.superfluid.finance/about"],
                      [label |-> "Blog", href |-> "https://www.superfluid.finance/blog"],
                      [label |-> "Terms of Use", href |-> "https://www.superfluid.finance/terms"],
                      [label |-> "Privacy Policy", href |-> "https://www.iubenda.com/privacy-policy/34415583/legal"] >> ] >>

\* `Copyright © ${new Date().getFullYear()} Superfluid Finance LTD. Built with Docusaurus.`
copyright(date) ==
    "Copyright © " \o NumberToString(getFullYear(date)) \o " Superfluid Finance LTD. Built with Docusaurus."

footer(date) == [style |-> "dark", links |-> footerLinks, copyright |-> copyright(date)]

algolia ==
    [ appId |-> "O3JEVRIQUM", apiKey |-> "8de88a77f0d3ae7ea04ea6e10bd6b52c",
      indexName |-> "v2-omega", contextualSearch |-> FALSE, searchPagePath |-> "search" ]

markprompt ==
    [ projectKey |-> "sk_test_ubCqOlHANKE1H1teDc6ykbIV2asfKklN",
      trigger |-> [floating |-> FALSE],
      search |-> [ enabled |-> TRUE,
                   provider |-> [ name |-> "algolia", apiKey |-> "8de88a77f0d3ae7ea04ea6e10bd6b52c",
                                  appId |-> "O3JEVRIQUM", indexName |-> "v2-omega" ] ] ]

\* A plugin declaration [name, options]; redirects is the option of the
\* client-redirects plugin (empty for a plugin declared with {}).
Plugin(n, r) == [name |-> n, redirects |-> r]

plugins ==
    << Plugin("@saucelabs/theme-github-codeblock", <<>>),
       Plugin("@docusaurus/plugin-client-redirects",
              << [to |-> "/docs/concepts/superfluid",
                  from |-> "/superfluid/protocol-overview/in-depth-overview"] >>) >>

themeConfig(date) ==
    [ colorMode  |-> [defaultMode |-> "dark", disableSwitch |-> FALSE, respectPrefersColorScheme |-> TRUE],
      image      |-> "img/docusaurus-social-card.png",
      navbar     |-> navbar,
      footer     |-> footer(date),
      prism      |-> [theme |-> "prismThemes.github", darkTheme |-> "prismThemes.dracula",
                      additionalLanguages |-> <<"solidity">>],
      algolia    |-> algolia,
      markprompt |-> markprompt,
      plugins    |-> plugins ]

\* The value of `const config: Config = {...}` when the module is evaluated
\* at `date` (the only read of the environment is new Date()).
config(date) ==
    [ title |-> "Superfluid Docs",
      tagline |-> "Docs but they hyper super fluid",
      favicon |-> "img/favicon.ico",
      themes |-> <<"@docusaurus/theme-live-codeblock", "@markprompt/docusaurus-theme-search">>,
      url |-> "https://docs.superfluid.finance/",
      baseUrl |-> "/",
      organizationName |-> "facebook",
      projectName |-> "docusaurus",
      onBrokenLinks |-> "ignore",
      onBrokenMarkdownLinks |-> "warn",
      i18n |-> [defaultLocale |-> "en", locales |-> <<"en">>],
      presets |-> presets,
      themeConfig |-> themeConfig(date) ]

(***************************************************************************)
(* Site: evaluating the configuration module in a build environment        *)
(***************************************************************************)
(***************************************************************************)
(* Distribution Pools (the documentation page)                             *)
(***************************************************************************)
Addresses == {"alice", "bob", "carol"}

MaxUnits == 1       \* a member holds 0..MaxUnits units
MaxFlowRate == 2    \* the small flow rates range over 0..MaxFlowRate

\* "orders of magnitude higher": at least two orders, a factor of 100.
OrdersOfMagnitude == 100

\* The flow rates a distributor requests: small ones, and ones orders of
\* magnitude above one unit and above the most units the pool can hold.
FlowRates ==
    (0..MaxFlowRate) \cup {OrdersOfMagnitude, OrdersOfMagnitude * MaxUnits * Cardinality(Addresses)}

\* struct PoolConfig { bool transferabilityForUnitsOwner; bool distributionFromAnyAddress; }
PoolConfig == [transferabilityForUnitsOwner : BOOLEAN, distributionFromAnyAddress : BOOLEAN]

RECURSIVE SumUnits(_, _)
SumUnits(u, S) ==
    IF S = {} THEN 0
    ELSE LET m == CHOOSE x \in S : TRUE IN u[m] + SumUnits(u, S \ {m})

\* The number of total units in the pool.
TotalUnits == SumUnits(units, Addresses)

\* A mutant: the division rounded up.
FlowRatePerUnitRoundedUp(F, U) == (F + U - 1) \div U

\* A mutant: the operands of the division swapped.
FlowRatePerUnitSwapped(F, U) == IF F = 0 THEN 0 ELSE U \div F

\* Step 1: the flow rate per unit, total flow rate / total units, an integer:
\* "If the result of the division is not an integer, the result is rounded down."
FlowRatePerUnit(F, U) == F \div U

\* Step 2: the flow rate of a member, flow rate per unit * the member's units.
MemberFlowRate(m) == FlowRatePerUnit(flowRate, TotalUnits) * units[m]

\* What the members' flow rates leave undistributed of the total flow rate.
Undistributed == flowRate - SumUnits([m \in Addresses |-> MemberFlowRate(m)], Addresses)

\* A mutant: the pool configuration is not consulted.
CanTransferIgnoringConfig(sender) == TRUE

\* transferabilityForUnitsOwner: "If true, the pool members can transfer their
\* owned units, else, only the pool admin can manipulate the units for pool members"
CanTransfer(sender) == poolConfig.transferabilityForUnitsOwner \/ sender = admin

\* A mutant: the pool configuration is not consulted.
CanDistributeIgnoringConfig(sender) == TRUE

\* distributionFromAnyAddress: "If true, anyone can execute distributions via the
\* pool, else, only the pool admin can execute distributions via the pool"
CanDistribute(sender) == poolConfig.distributionFromAnyAddress \/ sender = admin

Call(op, sender, ok) == [op |-> op, sender |-> sender, ok |-> ok]

PoolInit ==
    /\ created = FALSE
    /\ admin = "none"
    /\ poolConfig = [transferabilityForUnitsOwner |-> FALSE, distributionFromAnyAddress |-> FALSE]
    /\ units = [m \in Addresses |-> 0]
    /\ flowRate = 0
    /\ distributors = {}
    /\ lastCall = Call("none", "none", FALSE)

\* No build environment has evaluated the module (the pool's specification).
SiteIdle ==
    /\ now = [e \in Envs |-> StartTime]
    /\ tz = [e \in Envs |-> 0]
    /\ exported = [e \in Envs |-> <<>>]

Init == SiteIdle /\ PoolInit

\* The build environments before any build, each in a timezone of its own; no
\* pool is created in the site's specification.
SiteInit ==
    /\ now = [e \in Envs |-> StartTime]
    /\ tz \in [Envs -> Offsets]
    /\ exported = [e \in Envs |-> <<>>]
    /\ created = FALSE
    /\ admin = "none"
    /\ poolConfig = [transferabilityForUnitsOwner |-> FALSE, distributionFromAnyAddress |-> FALSE]
    /\ units = [m \in Addresses |-> 0]
    /\ flowRate = 0
    /\ distributors = {}
    /\ lastCall = Call("none", "none", FALSE)

\* The clock of environment e advances.
Tick(e) ==
    /\ now[e] < StartTime + MaxElapsed
    /\ now' = [now EXCEPT ![e] = @ + 1]
    /\ UNCHANGED <<tz, exported>>
    /\ UNCHANGED poolVars

\* A build in environment e evaluates the module: `export default config`.
Evaluate(e) ==
    /\ exported' = [exported EXCEPT ![e] =
                       << [time |-> now[e], offset |-> tz[e], config |-> config(NewDate(e))] >>]
    /\ UNCHANGED <<now, tz>>
    /\ UNCHANGED poolVars

\* createPool(token, admin, poolConfig)
createPool(sender, a, cfg) ==
    /\ ~created
    /\ created' = TRUE
    /\ admin' = a
    /\ poolConfig' = cfg
    /\ lastCall' = Call("createPool", sender, TRUE)
    /\ UNCHANGED <<units, flowRate, distributors>>
    /\ UNCHANGED siteVars

\* updateMemberUnits(token, pool, memberAddress, newUnits): the pool admin sets
\* the units of a member; a call by anyone else reverts.
updateMemberUnits(sender, memberAddress, newUnits) ==
    /\ created
    /\ IF sender = admin
       THEN /\ units' = [units EXCEPT ![memberAddress] = newUnits]
            /\ lastCall' = Call("updateMemberUnits", sender, TRUE)
       ELSE /\ units' = units
            /\ lastCall' = Call("updateMemberUnits", sender, FALSE)
    /\ UNCHANGED <<created, admin, poolConfig, flowRate, distributors>>
    /\ UNCHANGED siteVars

\* The ERC20 transfer of pool units: sender transfers amount of the units they
\* own to another address, "if it is allowed by the pool configuration".
transfer(sender, to, amount) ==
    /\ created
    /\ to # sender
    /\ amount \in 1..units[sender]
    /\ units[to] + amount <= MaxUnits
    /\ IF CanTransfer(sender)
       THEN /\ units' = [units EXCEPT ![sender] = @ - amount, ![to] = @ + amount]
            /\ lastCall' = Call("transfer", sender, TRUE)
       ELSE /\ units' = units
            /\ lastCall' = Call("transfer", sender, FALSE)
    /\ UNCHANGED <<created, admin, poolConfig, flowRate, distributors>>
    /\ UNCHANGED siteVars

\* distributeToPool(token, from, pool, requestedAmount): an instant distribution
\* via the pool. The members' token balances are outside this model.
distributeToPool(sender, requestedAmount) ==
    /\ created
    /\ IF CanDistribute(sender)
       THEN /\ distributors' = distributors \cup {sender}
            /\ lastCall' = Call("distributeToPool", sender, TRUE)
       ELSE /\ distributors' = distributors
            /\ lastCall' = Call("distributeToPool", sender, FALSE)
    /\ UNCHANGED <<created, admin, poolConfig, units, flowRate>>
    /\ UNCHANGED siteVars

\* distributeFlow(token, from, pool, flowRate): a streaming distribution via the
\* pool; flowRate becomes the total flow rate of the pool.
distributeFlow(sender, requestedFlowRate) ==
    /\ created
    /\ IF CanDistribute(sender)
       THEN /\ flowRate' = requestedFlowRate
            /\ distributors' = distributors \cup {sender}
            /\ lastCall' = Call("distributeFlow", sender, TRUE)
       ELSE /\ UNCHANGED <<flowRate, distributors>>
            /\ lastCall' = Call("distributeFlow", sender, FALSE)
    /\ UNCHANGED <<created, admin, poolConfig, units>>
    /\ UNCHANGED siteVars

SiteNext ==
    \/ \E e \in Envs : Tick(e)
    \/ \E e \in Envs : Evaluate(e)

SiteSpec == SiteInit /\ [][SiteNext]_vars

Next ==
    \/ \E s \in Addresses, a \in Addresses, cfg \in PoolConfig : createPool(s, a, cfg)
    \/ \E s \in Addresses, m \in Addresses, n \in 0..MaxUnits : updateMemberUnits(s, m, n)
    \/ \E s \in Addresses, to \in Addresses, n \in 1..MaxUnits : transfer(s, to, n)
    \/ \E s \in Addresses, n \in FlowRates : distributeToPool(s, n)
    \/ \E s \in Addresses, r \in FlowRates : distributeFlow(s, r)

Spec == Init /\ [][Next]_vars

(***************************************************************************)
(* Claims about the Distribution Pool (Spec)                               *)
(***************************************************************************)

\* C1: in a pool with total flow rate F >= 0 and total units U > 0 the flow
\* rate per unit is the integer quotient of F by U rounded down (the largest
\* integer p with p * U <= F), and the flow rate of each member is exactly
\* p times the member's units; what is left undistributed is F mod U.
C1_FlowRatePerUnitRoundsDown ==
    (created /\ TotalUnits > 0) =>
        LET F == flowRate
            U == TotalUnits
            p == FlowRatePerUnit(F, U)
        IN  /\ p \in Nat
            /\ p * U <= F
            /\ F < (p + 1) * U
            /\ \A m \in Addresses : MemberFlowRate(m) = p * units[m]
            /\ Undistributed = F % U

\* Example 1 of the page: 100 wei/second, 3 members with 1 unit each: 33 per
\* unit, 33 to each member, 1 left undistributed.
C1_Witness ==
    /\ created
    /\ flowRate = 100
    /\ TotalUnits = 3
    /\ FlowRatePerUnit(flowRate, TotalUnits) = 33
    /\ \A m \in Addresses : units[m] = 1 /\ MemberFlowRate(m) = 33
    /\ Undistributed = 1

\* The total flow rate is orders of magnitude higher than the total units.
DesignedPool == TotalUnits > 0 /\ flowRate >= OrdersOfMagnitude * TotalUnits

\* C2: whenever the total flow rate is orders of magnitude higher than the
\* total units (total units > 0), the flow rate per unit is strictly positive
\* and every member holding at least one unit has a strictly positive flow
\* rate, in every state reached by updateMemberUnits calls (and the other
\* operations) in which that precondition holds.
C2_DesignedPoolPaysEveryMember ==
    (created /\ DesignedPool) =>
        /\ FlowRatePerUnit(flowRate, TotalUnits) > 0
        /\ \A m \in Addresses : units[m] >= 1 => MemberFlowRate(m) > 0

\* updateMemberUnits has just changed the units of a designed pool that holds
\* several units, and the precondition still holds.
C2_Witness ==
    /\ created
    /\ lastCall.op = "updateMemberUnits" /\ lastCall.ok
    /\ DesignedPool
    /\ TotalUnits >= 2
    /\ \E m \in Addresses : units[m] >= 1 /\ MemberFlowRate(m) >= OrdersOfMagnitude

\* C3: in a pool created with transferabilityForUnitsOwner = true a transfer
\* by a member of units they own takes place (the units move to the other
\* address); in a pool created with transferabilityForUnitsOwner = false no
\* call by an address other than the pool admin changes any member's units.
C3_UnitsTransferability ==
    [][ created =>
          /\ (~poolConfig.transferabilityForUnitsOwner /\ lastCall'.sender # admin)
                => units' = units
          /\ (poolConfig.transferabilityForUnitsOwner /\ lastCall'.op = "transfer")
                => /\ lastCall'.ok
                   /\ units'[lastCall'.sender] < units[lastCall'.sender]
                   /\ SumUnits(units', Addresses) = SumUnits(units, Addresses) ]_vars

\* In a pool without transferability a member who is not the admin and owns
\* units has attempted a transfer, which did not take place.
C3_Witness ==
    /\ created
    /\ ~poolConfig.transferabilityForUnitsOwner
    /\ lastCall.op = "transfer" /\ lastCall.sender # admin /\ ~lastCall.ok
    /\ units[lastCall.sender] >= 1

\* C4: in a pool created with distributionFromAnyAddress = true every
\* distribution attempted, by any address, takes place; in a pool created with
\* distributionFromAnyAddress = false a distribution attempted by an address
\* other than the pool admin does not take place, so every distribution that
\* occurred was executed by the pool admin.
C4_DistributionFromAnyAddress ==
    created =>
        LET isDistribution == lastCall.op \in {"distributeToPool", "distributeFlow"}
        IN  /\ (poolConfig.distributionFromAnyAddress /\ isDistribution)
                  => lastCall.ok /\ lastCall.sender \in distributors
            /\ ~poolConfig.distributionFromAnyAddress
                  => /\ distributors \subseteq {admin}
                     /\ (isDistribution /\ lastCall.sender # admin) => ~lastCall.ok

\* In a pool without distributionFromAnyAddress the admin has distributed and
\* an attempt by another address has just been refused.
C4_Witness ==
    /\ created
    /\ ~poolConfig.distributionFromAnyAddress
    /\ distributors = {admin}
    /\ lastCall.op = "distributeToPool" /\ lastCall.sender # admin /\ ~lastCall.ok

(***************************************************************************)
(* Claims about the site configuration (SiteSpec)                          *)
(***************************************************************************)
Evaluated == {e \in Envs : exported[e] # <<>>}

\* The local time of an evaluation, in ticks since the epoch.
LocalTime(x) == x.time + x.offset

\* Two evaluations fall in the same calendar year of their local times.
SameLocalYear(x, y) ==
    \E k \in 0..(StartTime + MaxElapsed + MaxOffset) :
        /\ k * TicksPerYear <= LocalTime(x) /\ LocalTime(x) < (k + 1) * TicksPerYear
        /\ k * TicksPerYear <= LocalTime(y) /\ LocalTime(y) < (k + 1) * TicksPerYear

WithoutCopyright(c) == [c EXCEPT !.themeConfig.footer.copyright = ""]

\* C5 as stated: evaluating the configuration module yields the same
\* configuration value in every environment, whatever its clock, the footer
\* copyright text included.
C5_SameConfigEverywhere ==
    \A e1, e2 \in Evaluated : exported[e1][1].config = exported[e2][1].config

\* C5 as amended: two evaluations of the configuration module agree on every
\* field other than the footer copyright text, and they yield identical
\* configurations exactly when they happen in the same calendar year of the
\* environments' local time.
C5_SameConfigWithinYear ==
    \A e1, e2 \in Evaluated :
        LET x == exported[e1][1]
            y == exported[e2][1]
        IN  /\ WithoutCopyright(x.config) = WithoutCopyright(y.config)
            /\ (x.config = y.config) <=> SameLocalYear(x, y)

\* Two environments with different clocks and timezones have evaluated the
\* module within one calendar year.
C5_Witness ==
    \E e1, e2 \in Evaluated :
        /\ exported[e1][1].time # exported[e2][1].time
        /\ exported[e1][1].offset # exported[e2][1].offset
        /\ SameLocalYear(exported[e1][1], exported[e2][1])
        /\ exported[e1][1].config = exported[e2][1].config

HasPlugin(list, n) == \E i \in 1..Len(list) : list[i].name = n

HasRedirect(list, from, to) ==
    \E i \in 1..Len(list) :
        /\ list[i].name = "@docusaurus/plugin-client-redirects"
        /\ \E j \in 1..Len(list[i].redirects) :
              list[i].redirects[j].from = from /\ list[i].redirects[j].to = to

\* C6: the '@saucelabs/theme-github-codeblock' plugin and the
\* '@docusaurus/plugin-client-redirects' plugin, with the redirect from
\* '/superfluid/protocol-overview/in-depth-overview' to
\* '/docs/concepts/superfluid', are declared in the top-level plugins field of
\* the configuration the module exports.
C6_PluginsDeclaredTopLevel ==
    \A e \in Evaluated :
        LET c == exported[e][1].config
        IN  /\ "plugins" \in DOMAIN c
            /\ HasPlugin(c.plugins, "@saucelabs/theme-github-codeblock")
            /\ HasRedirect(c.plugins, "/superfluid/protocol-overview/in-depth-overview",
                           "/docs/concepts/superfluid")

====
